---- MODULE Spec2Model ----
(***************************************************************************)
(* json2jsonl (src/src/main.rs): convert one top-level JSON array into     *)
(* JSON Lines.  The model follows main(): the 'remove_prefix loop          *)
(* (fill_buf / SkipState::skip / consume), the value parser               *)
(* (serde_json::Deserializer::from_reader over the counting reader,        *)
(* deserializing a Box<RawValue>), the emission of the line and the       *)
(* progress bookkeeping.                                                   *)
(*                                                                         *)
(* Bytes are one-character strings.  The inputs are all byte sequences    *)
(* over Alphabet up to MaxLen bytes, and the arrays of ArrayShapes: up to *)
(* two elements (a number, a string, a nested array) with or without a    *)
(* space in each gap, closed (and then perhaps followed by one more       *)
(* byte), truncated or with a trailing comma.  The                        *)
(* value parser is modelled on exactly the bytes that occur in them       *)
(* (numbers made of the digit 1, strings without escapes, nested arrays). *)
(***************************************************************************)
EXTENDS Integers, Sequences, FiniteSets, TLC

\* ---------------------------------------------------------------- bounds
MaxLen == 4
MaxEofScans == 2

\* BufReader::with_capacity(256 * 1024, r)
Capacity == 262144

\* ------------------------------------------------------------------ bytes
LB == "["
RB == "]"
COMMA == ","
SP == " "
TAB == "\t"
NL == "\n"
CR == "\r"
DIGIT == "1"
QUOTE == "\""
EOF == "EOF"
NoByte == "none"

Alphabet == {LB, RB, COMMA, SP, CR, DIGIT}

ShortInputs == UNION {[1..k -> Alphabet] : k \in 0..MaxLen}

\* Arrays by construction: the elements, the gap before and after each, and
\* how the array ends.
Elems == {<<DIGIT>>, <<QUOTE, COMMA, QUOTE>>, <<LB, DIGIT, RB>>}
Gaps == {<<>>, <<SP>>}
Closers == {<<RB>>, <<RB, SP>>, <<>>, <<COMMA, RB>>}
NoShape == [elems |-> <<>>, gaps |-> <<>>, closer |-> <<"?">>]

ArrayShapes ==
    [elems : {<<>>}, gaps : [1..1 -> Gaps], closer : Closers]
    \cup [elems : [1..1 -> Elems], gaps : [1..2 -> Gaps], closer : Closers]
    \cup [elems : [1..2 -> Elems], gaps : [1..4 -> Gaps], closer : Closers]

Render(sh) ==
    IF Len(sh.elems) = 0 THEN <<LB>> \o sh.gaps[1] \o sh.closer
    ELSE IF Len(sh.elems) = 1
    THEN <<LB>> \o sh.gaps[1] \o sh.elems[1] \o sh.gaps[2] \o sh.closer
    ELSE <<LB>> \o sh.gaps[1] \o sh.elems[1] \o sh.gaps[2] \o <<COMMA>>
         \o sh.gaps[3] \o sh.elems[2] \o sh.gaps[4] \o sh.closer

Min(a, b) == IF a < b THEN a ELSE b

VARIABLES
    input,          \* the bytes of the input source (File / stdin)
    progress,       \* args.progress
    pos,            \* rd: bytes removed from the BufReader so far (read offset)
    filled,         \* rd: bytes read from the inner source into the buffer so far
    count,          \* BufReaderWithCount.count
    at_beginning,   \* SkipState.at_beginning
    st, n,          \* main: the (SkipRes, usize) returned by skip
    pmode, depth,   \* deser: where ignore_value stands, and its open frames
    raw,            \* deser: IoRead.raw_buffer
    ch,             \* deser: IoRead.ch, the byte peeked and not consumed
    out,            \* bytes written to output
    old_count,      \* main: old_count
    bar,            \* the sum of the increments given to bar.inc
    pc,             \* main: the statement to run next
    status,         \* running, or how main ended
    eofScans,       \* history: calls of skip on an empty window at end of input
    shape,          \* history: how the input was built (NoShape: a short input)
    prev            \* history: the result of the run before this one, if any

vars == <<input, progress, pos, filled, count, at_beginning, st, n, pmode, depth,
          raw, ch, out, old_count, bar, pc, status, eofScans, shape, prev>>

\* What no step of main changes.
env == <<input, progress, shape, prev>>

\* ------------------------------------------------- BufReaderWithCount

\* A fill_buf that counts the bytes it reads ahead.
count_fill_buf_counting(c, got) == c + got

\* fill_buf: the counter is not touched (got: bytes newly read into the buffer).
count_fill_buf(c, got) == c

\* A consume that counts twice.
count_consume_twice(c, k) == c + k + k

\* consume(n): self.count += n
count_consume(c, k) == c + k

\* A read that forgets to count.
count_read_uncounted(c, k) == c

\* read(buf): self.count += n, n the bytes returned
count_read(c, k) == c + k

\* The window fill_buf returns: the buffered, unconsumed bytes.
buf == SubSeq(input, pos + 1, filled)

\* The offsets the buffer may be filled to by one read of the inner source:
\* at least one byte unless the source is at its end, at most Capacity.
Refills ==
    IF pos < filled THEN {filled}
    ELSE IF filled = Len(input) THEN {filled}
    ELSE (filled + 1)..Min(Len(input), filled + Capacity)

\* ------------------------------------------------------- SkipState::skip

KeepSkipping == "KeepSkipping"
ExpectValue == "ExpectValue"
End == "End"

RECURSIVE skip_past(_, _)
\* The index after the whitespace that starts at index i + 1 of b.
skip_past(b, i) ==
    IF i < Len(b) /\ (b[i + 1] = SP \/ b[i + 1] = TAB \/ b[i + 1] = NL)
    THEN skip_past(b, i + 1)
    ELSE i

RECURSIVE skip_from_greedy(_, _, _)
\* A skip that, at the closing bracket, also consumes the whitespace after it.
skip_from_greedy(b, i, ab) ==
    IF i >= Len(b)
    THEN [res |-> KeepSkipping, k |-> Len(b), ab |-> ab, panic |-> FALSE]
    ELSE LET c == b[i + 1]
             j == i + 1
         IN IF c = SP \/ c = TAB \/ c = NL
            THEN skip_from_greedy(b, j, ab)
            ELSE IF c = LB /\ ab
            THEN [res |-> ExpectValue, k |-> j, ab |-> FALSE, panic |-> FALSE]
            ELSE IF c = COMMA /\ ~ab
            THEN [res |-> ExpectValue, k |-> j, ab |-> ab, panic |-> FALSE]
            ELSE IF c = RB /\ ~ab
            THEN [res |-> End, k |-> skip_past(b, j), ab |-> ab, panic |-> FALSE]
            ELSE [res |-> KeepSkipping, k |-> j, ab |-> ab, panic |-> TRUE]

RECURSIVE skip_from(_, _, _)
skip_from(b, i, ab) ==
    IF i >= Len(b)
    THEN [res |-> KeepSkipping, k |-> Len(b), ab |-> ab, panic |-> FALSE]
    ELSE LET c == b[i + 1]
             j == i + 1
         IN IF c = SP \/ c = TAB \/ c = NL
            THEN skip_from(b, j, ab)
            ELSE IF c = LB /\ ab
            THEN [res |-> ExpectValue, k |-> j, ab |-> FALSE, panic |-> FALSE]
            ELSE IF c = COMMA /\ ~ab
            THEN [res |-> ExpectValue, k |-> j, ab |-> ab, panic |-> FALSE]
            ELSE IF c = RB /\ ~ab
            THEN [res |-> End, k |-> j, ab |-> ab, panic |-> FALSE]
            ELSE [res |-> KeepSkipping, k |-> j, ab |-> ab, panic |-> TRUE]

\* A skip that consumes one byte more than the token when the window has it.
skip_off_by_one(b, ab) ==
    LET r == skip_from(b, 0, ab)
    IN IF r.res # KeepSkipping THEN [r EXCEPT !.k = Min(@ + 1, Len(b))] ELSE r

\* A skip that forgets to leave the beginning (line 76).
skip_keeps_beginning(b, ab) == [skip_from(b, 0, ab) EXCEPT !.ab = ab]

\* A skip that takes the end of a whitespace window in a gap for the end of
\* the array.
skip_window_end(b, ab) ==
    LET r == skip_from(b, 0, ab)
    IN IF r.res = KeepSkipping /\ ~r.panic /\ ~ab THEN [r EXCEPT !.res = End]
       ELSE r

skip(b, ab) == skip_from(b, 0, ab)

\* ------------------------------------ serde_json: deserialize a RawValue
\* serde_json::Deserializer::from_reader(&mut reader) reads the source one
\* byte at a time through Read::read (IoRead over reader.bytes()), keeps a
\* peeked byte in IoRead.ch, and records the consumed bytes of the value in
\* IoRead.raw_buffer.  deserialize_raw_value is parse_whitespace, then
\* begin_raw_buffering, ignore_value, end_raw_buffering.  pmode is the place
\* where the parser waits for its next byte:
\*   ws0    the leading parse_whitespace (nothing recorded yet)
\*   val    ignore_value expects a value
\*   open   just after a [ : a value or ] may follow
\*   after  after a value inside an array: , or ] must follow
\*   num    inside a number      str    inside a string
IsWs(b) == b = SP \/ b = TAB \/ b = NL \/ b = CR

PRes(mode, d, eat, rec, res) ==
    [mode |-> mode, depth |-> d, eat |-> eat, rec |-> rec, res |-> res]

PErr(mode, d) == PRes(mode, d, FALSE, FALSE, "err")

\* A value is complete: the outermost one ends the parse.
p_close(d) ==
    IF d = 0 THEN PRes("idle", 0, TRUE, TRUE, "ok")
    ELSE PRes("after", d, TRUE, TRUE, "more")

p_value(b, d) ==
    IF b = EOF THEN PErr("val", d)
    ELSE IF IsWs(b) THEN PRes("val", d, TRUE, TRUE, "more")
    ELSE IF b = DIGIT THEN PRes("num", d, TRUE, TRUE, "more")
    ELSE IF b = QUOTE THEN PRes("str", d, TRUE, TRUE, "more")
    ELSE IF b = LB THEN PRes("open", d + 1, TRUE, TRUE, "more")
    ELSE PErr("val", d)

p_after(b, d) ==
    IF b = EOF THEN PErr("after", d)
    ELSE IF IsWs(b) THEN PRes("after", d, TRUE, TRUE, "more")
    ELSE IF b = COMMA THEN PRes("val", d, TRUE, TRUE, "more")
    ELSE IF b = RB THEN p_close(d - 1)
    ELSE PErr("after", d)

p_open(b, d) ==
    IF b = EOF THEN PErr("open", d)
    ELSE IF IsWs(b) THEN PRes("open", d, TRUE, TRUE, "more")
    ELSE IF b = RB THEN p_close(d - 1)
    ELSE p_value(b, d)

\* ignore_integer: the byte after the last digit is peeked.  When the number
\* is the whole value the parse ends with that byte left in IoRead.ch.
p_num(b, d) ==
    IF b = DIGIT THEN PRes("num", d, TRUE, TRUE, "more")
    ELSE IF d = 0 THEN PRes("idle", 0, FALSE, FALSE, "ok")
    ELSE p_after(b, d)

\* ignore_str: a control character inside a string is an error.
p_str(b, d) ==
    IF b = EOF THEN PErr("str", d)
    ELSE IF b = QUOTE THEN p_close(d)
    ELSE IF b = TAB \/ b = NL \/ b = CR THEN PErr("str", d)
    ELSE PRes("str", d, TRUE, TRUE, "more")

p_ws0(b) ==
    IF b # EOF /\ IsWs(b) THEN PRes("ws0", 0, TRUE, FALSE, "more")
    ELSE p_value(b, 0)

p_step(mode, d, b) ==
    IF mode = "ws0" THEN p_ws0(b)
    ELSE IF mode = "val" THEN p_value(b, d)
    ELSE IF mode = "open" THEN p_open(b, d)
    ELSE IF mode = "after" THEN p_after(b, d)
    ELSE IF mode = "num" THEN p_num(b, d)
    ELSE p_str(b, d)

\* A main that goes on to write the line whatever the deserializer returned.
after_deser_lenient(res) == IF res = "more" THEN "deser" ELSE "emit"

\* Where main continues after the deserializer returned (line 145: `?`).
after_deser(res) ==
    IF res = "ok" THEN "emit" ELSE IF res = "err" THEN "halt" ELSE "deser"

\* Where main continues after skip returned or panicked (line 83).
after_skip(panicked) == IF panicked THEN "halt" ELSE "consume"

\* A match that leaves 'remove_prefix on KeepSkipping too.
after_consume_no_loop(s) == IF s = End THEN "flush" ELSE "deser"

\* match st (lines 132-140)
after_consume(s) ==
    IF s = KeepSkipping THEN "fill"
    ELSE IF s = ExpectValue THEN "deser"
    ELSE "flush"

\* ------------------------------------------------------------------- main

NoPrev == [input |-> <<>>, outcome |-> "none", out |-> <<>>, count |-> 0, filled |-> 0]

\* lines 118-121, and the state of the parts not yet used
Start ==
    /\ pos = 0
    /\ filled = 0
    /\ count = 0
    /\ at_beginning = TRUE
    /\ st = KeepSkipping
    /\ n = 0
    /\ pmode = "idle"
    /\ depth = 0
    /\ raw = <<>>
    /\ ch = NoByte
    /\ out = <<>>
    /\ old_count = 0
    /\ bar = 0
    /\ pc = "fill"
    /\ status = "running"
    /\ eofScans = 0

Init ==
    /\ \/ /\ input \in ShortInputs
          /\ shape = NoShape
       \/ \E sh \in ArrayShapes :
             /\ input = Render(sh)
             /\ shape = sh
    /\ progress \in BOOLEAN
    /\ prev = NoPrev
    /\ Start

\* An I/O failure of the input or of the output: `?` returns it from main.
IoFail ==
    /\ pc' = "halt"
    /\ status' = "io_error"
    /\ UNCHANGED <<env, pos, filled, count, at_beginning, st, n,
                   pmode, depth, raw, ch, out, old_count, bar, eofScans>>

\* line 126: reader.fill_buf()?
FillBuf ==
    /\ pc = "fill"
    /\ \/ /\ \E f \in Refills :
                /\ filled' = f
                /\ count' = count_fill_buf(count, f - filled)
          /\ pc' = "skip"
          /\ UNCHANGED <<env, pos, at_beginning, st, n, pmode, depth,
                         raw, ch, out, old_count, bar, status, eofScans>>
       \/ /\ pos = filled
          /\ IoFail

\* line 127: skip_st.skip(buf)
Skip ==
    /\ pc = "skip"
    /\ Len(buf) = 0 => eofScans < MaxEofScans
    /\ LET r == skip(buf, at_beginning)
       IN /\ pc' = after_skip(r.panic)
          /\ status' = IF r.panic THEN "panic" ELSE status
          /\ st' = r.res
          /\ n' = r.k
          /\ at_beginning' = r.ab
    /\ eofScans' = IF Len(buf) = 0 THEN eofScans + 1 ELSE eofScans
    /\ UNCHANGED <<env, pos, filled, count, pmode, depth, raw, ch,
                   out, old_count, bar>>

\* lines 130-140: reader.consume(n); match st
Consume ==
    /\ pc = "consume"
    /\ count' = count_consume(count, n)
    /\ pos' = pos + n
    /\ pc' = after_consume(st)
    /\ pmode' = IF st = ExpectValue THEN "ws0" ELSE pmode
    /\ UNCHANGED <<env, filled, at_beginning, st, n, depth, raw, ch,
                   out, old_count, bar, status, eofScans>>

\* lines 144-145: one byte read by the deserializer through Read::read, and
\* what the parser does with it.
DeserRead ==
    /\ pc = "deser"
    /\ \/ \E f \in Refills :
            LET got == IF pos < f THEN 1 ELSE 0
                b == IF got = 1 THEN input[pos + 1] ELSE EOF
                r == p_step(pmode, depth, b)
            IN /\ filled' = f
               /\ pos' = pos + got
               /\ count' = count_read(count, got)
               /\ pmode' = r.mode
               /\ depth' = r.depth
               /\ raw' = IF r.rec THEN Append(raw, b) ELSE raw
               /\ ch' = IF r.eat \/ b = EOF THEN NoByte ELSE b
               /\ pc' = after_deser(r.res)
               /\ status' = IF r.res = "err" THEN "parse_error" ELSE status
               /\ UNCHANGED <<env, at_beginning, st, n, out,
                              old_count, bar, eofScans>>
       \/ /\ pos = filled
          /\ IoFail

\* lines 146-148: serde_json::to_writer(&mut output, &value)?; writeln!(output)?
\* and the deserializer goes out of scope.
Emit ==
    /\ pc = "emit"
    /\ \/ /\ out' = out \o raw \o <<NL>>
          /\ raw' = <<>>
          /\ ch' = NoByte
          /\ pc' = "progress"
          /\ UNCHANGED <<env, pos, filled, count, at_beginning, st, n,
                         pmode, depth, old_count, bar, status, eofScans>>
       \/ IoFail

\* lines 150-155: new_count, bar.inc(new_count - old_count), old_count
Progress ==
    /\ pc = "progress"
    /\ bar' = IF progress THEN bar + (count - old_count) ELSE bar
    /\ old_count' = count
    /\ pc' = "fill"
    /\ UNCHANGED <<env, pos, filled, count, at_beginning, st, n,
                   pmode, depth, raw, ch, out, status, eofScans>>

\* lines 158-163: output.flush()?; bar.finish(); Ok(())
Flush ==
    /\ pc = "flush"
    /\ \/ /\ pc' = "done"
          /\ status' = "ok"
          /\ UNCHANGED <<env, pos, filled, count, at_beginning, st, n,
                         pmode, depth, raw, ch, out, old_count, bar, eofScans>>
       \/ IoFail

Next == FillBuf \/ Skip \/ Consume \/ DeserRead \/ Emit \/ Progress \/ Flush

Spec == Init /\ [][Next]_vars

\* ------------------------------------------------------------ a second run
\* How a run ended.  Once skip has run on the empty window of the end of
\* input nothing changes any more: main stays in 'remove_prefix for ever.
Ended == pc = "done" \/ pc = "halt"
Hung == eofScans >= 1
Outcome ==
    IF pc = "done" THEN "ok"
    ELSE IF pc = "halt" THEN status
    ELSE IF Hung THEN "hang"
    ELSE "running"

\* The same array with other gaps (for the arrays of at most one element).
Variants(sh) ==
    IF sh = NoShape \/ Len(sh.elems) > 1 THEN {}
    ELSE {v \in ArrayShapes : v.elems = sh.elems /\ v.closer = sh.closer}

\* main is run again (lines 118-121 anew), on the same input or, for an array
\* built from a shape, on the same array with other gaps; the first run's
\* result is kept in prev (of a run that finished, also how far the source
\* had been read).
Restart ==
    /\ prev = NoPrev
    /\ Ended \/ eofScans = MaxEofScans
    /\ status # "io_error"
    /\ prev' = [input |-> input, outcome |-> Outcome, out |-> out,
                count |-> count, filled |-> IF pc = "done" THEN filled ELSE 0]
    /\ \/ UNCHANGED <<input, shape>>
       \/ \E v \in Variants(shape) :
             /\ input' = Render(v)
             /\ shape' = v
    /\ pos' = 0
    /\ filled' = 0
    /\ count' = 0
    /\ at_beginning' = TRUE
    /\ st' = KeepSkipping
    /\ n' = 0
    /\ pmode' = "idle"
    /\ depth' = 0
    /\ raw' = <<>>
    /\ ch' = NoByte
    /\ out' = <<>>
    /\ old_count' = 0
    /\ bar' = 0
    /\ pc' = "fill"
    /\ status' = "running"
    /\ eofScans' = 0
    /\ UNCHANGED progress

NextTwin == Next \/ Restart

SpecTwin == Init /\ [][NextTwin]_vars

\* -------------------------------------------------------------- properties

RECURSIVE Lines(_)
\* The output for the elements es: each followed by one line terminator.
Lines(es) == IF es = <<>> THEN <<>> ELSE Head(es) \o <<NL>> \o Lines(Tail(es))

NotSpace(b) == b # SP
StripSp(s) == SelectSeq(s, NotSpace)

\* The run is over, and not by a failure of the input or output stream.
Over == Outcome \in {"ok", "panic", "parse_error", "hang"}

WellFormed == shape # NoShape /\ shape.closer = <<RB>>

\* C1: for a well-formed array [v1, ..., vn], under every chunking, the run
\* ends successfully and the output is the n lines v1 .. vn in order.
C1_WellFormedArrayEmitted ==
    (WellFormed /\ Over) => (Outcome = "ok" /\ out = Lines(shape.elems))

\* C2: the empty array, with or without whitespace around and inside it,
\* ends successfully with no output.
C2_EmptyArraySucceeds ==
    (StripSp(input) = <<LB, RB>> /\ Over) => (Outcome = "ok" /\ out = <<>>)

\* C3: two inputs that differ only by the whitespace in the gaps of the array
\* have the same outcome and the same output.
C3_WhitespaceInsensitive ==
    (prev # NoPrev /\ StripSp(prev.input) = StripSp(input) /\ Over)
        => (Outcome = prev.outcome /\ out = prev.out)

\* C4: when skip has met the end of input where a structural token was
\* required, the run has failed: main does not go round 'remove_prefix again.
C4_EndOfInputIsFatal ==
    (eofScans >= 1 /\ pc = "fill") => status = "panic"

\* C5: an array with a trailing comma never reaches Finished; it fails, and
\* at the failure exactly the lines of its elements have been written.
C5_TrailingCommaFails ==
    (shape # NoShape /\ shape.closer = <<COMMA, RB>> /\ Len(shape.elems) >= 1)
        => /\ pc \notin {"flush", "done"}
           /\ Over => (Outcome \in {"panic", "parse_error"}
                       /\ out = Lines(shape.elems))

\* C10: a carriage return is whitespace for skip: the byte skip panics on is
\* never a CR.
C10_CarriageReturnSkipped ==
    status = "panic" => input[pos + n] # CR

\* C6: when the stream is Finished the counter is the number of input bytes
\* up to and including the terminating ], and a second run of the same
\* input, however chunked, finishes with the same counter.
C6_CounterAtFinished ==
    pc \in {"flush", "done"}
        => /\ count = pos
           /\ count >= 1
           /\ input[count] = RB
           /\ (prev.outcome = "ok" /\ prev.input = input) => count = prev.count

\* Two finished runs of one input whose windows differed: the source was read
\* further ahead in one than in the other.
C6_Witness ==
    /\ pc = "done"
    /\ prev.outcome = "ok"
    /\ prev.input = input
    /\ prev.filled # filled
    /\ count >= 4

\* C7: fill_buf leaves the counter unchanged; consume(n) adds exactly n; a
\* read adds exactly the number of bytes it returned; nothing else changes
\* the counter.
C7_CounterChanges ==
    [][/\ pc = "fill" => count' = count
       /\ pc = "consume" => count' = count + n
       /\ pc = "deser" => count' - count = pos' - pos
       /\ pc \notin {"fill", "consume", "deser"} => count' = count
       /\ count' <= filled']_vars

\* The window was filled beyond what the caller has consumed, after bytes
\* were counted both by consume and by read.
C7_Witness ==
    /\ pc = "skip"
    /\ prev = NoPrev
    /\ filled >= pos + 2
    /\ count = pos
    /\ out # <<>>

\* C8: the step that takes the stream to Finished consumes up to the closing
\* ] and no further; after it nothing is consumed, scanned, parsed or
\* written: main only flushes and returns.
C8_FinishedIsFinal ==
    [][/\ (pc = "consume" /\ pc' = "flush")
            => (pos' = pos + n /\ input[pos'] = RB)
       /\ pc \in {"flush", "done"}
            => /\ pos' = pos /\ filled' = filled /\ count' = count
               /\ out' = out /\ at_beginning' = at_beginning
               /\ pc' \in {"done", "halt"}
               /\ status' \in {"ok", "io_error"}]_vars

\* A run that ended successfully with bytes left after the closing ].
C8_Witness ==
    /\ pc = "done"
    /\ status = "ok"
    /\ pos < Len(input)
    /\ filled = Len(input)
    /\ out # <<>>

\* C9: after the first failure nothing is consumed and nothing is written,
\* and the lines written before it stay as they were.
C9_FailureIsFinal ==
    [][status \notin {"running", "ok"}
            => /\ pos' = pos /\ filled' = filled /\ count' = count
               /\ out' = out /\ status' = status /\ pc' = pc]_vars

\* A value-parse failure after a line had been written.
C9_Witness ==
    /\ pc = "halt"
    /\ status = "parse_error"
    /\ out # <<>>
    /\ prev = NoPrev

\* C11: with progress reporting on, a run that ended successfully has
\* reported to the bar as many bytes as the counter holds.
C11_ProgressReachesTotal ==
    (pc = "done" /\ progress) => bar = count

\* C12: when the value parser has returned an element, the read offset is
\* just after the last byte of that value: the bytes before it are the value
\* and no byte is held back in the deserializer.
C12_ParserStopsAfterValue ==
    pc = "emit"
        => /\ raw # <<>>
           /\ pos >= Len(raw)
           /\ SubSeq(input, pos - Len(raw) + 1, pos) = raw
           /\ ch = NoByte

\* The bytes skip treats as whitespace, and those JSON does.
SkipWs == {SP, TAB, NL}
JsonWs == {SP, TAB, NL, CR}

RECURSIVE FirstNonWs(_, _)
FirstNonWs(b, i) ==
    IF i <= Len(b) /\ b[i] \in JsonWs THEN FirstNonWs(b, i + 1) ELSE i

\* skip itself, on the bytes it is given: when the first non-whitespace byte
\* of the window is not the token the state allows ([ at the beginning; , or
\* ] after it), skip fails: main stops with the malformed-input panic and
\* consumes nothing.
SkipRejectsUnexpectedByte ==
    [][pc = "skip"
            => LET i == FirstNonWs(buf, 1)
               IN (/\ i <= Len(buf)
                   /\ \A j \in 1..(i - 1) : buf[j] \in SkipWs
                   /\ IF at_beginning THEN buf[i] # LB
                      ELSE buf[i] \notin {COMMA, RB})
                  => (status' = "panic" /\ pc' = "halt" /\ pos' = pos)]_vars

\* The number of bytes of s that are b.
Occ(b, s) == Cardinality({i \in 1..Len(s) : s[i] = b})

\* C14: a byte that is neither whitespace nor the token allowed in the
\* scanner's state is never passed over: in a run that finished, every
\* consumed byte other than whitespace, `,` and `]` is the opening [ or a
\* byte of a value that was written.
C14_NoByteSilentlySkipped ==
    pc = "done"
        => \A b \in {LB, DIGIT, QUOTE} :
              Occ(b, SubSeq(input, 1, pos))
                  = Occ(b, out) + (IF b = LB THEN 1 ELSE 0)

\* C15: a skip that returns ExpectValue or End reports a count n within the
\* window, the n - 1 bytes before byte n are whitespace and byte n is the
\* token; consume then stops right after the token, where a value parser
\* starts reading.
C15_SkipStopsAtToken ==
    [][(pc = "consume" /\ st \in {ExpectValue, End})
            => /\ 1 <= n /\ n <= Len(buf)
               /\ \A j \in 1..(n - 1) : buf[j] \in SkipWs
               /\ buf[n] \in {LB, COMMA, RB}
               /\ pos' = pos + n
               /\ filled' = filled
               /\ st = ExpectValue
                    => (pc' = "deser" /\ pmode' = "ws0"
                        /\ input[pos'] \in {LB, COMMA})]_vars

\* The parser is about to start after a [ that followed whitespace, with the
\* window already holding bytes after the token.
C15_Witness ==
    /\ pc = "deser"
    /\ pmode = "ws0"
    /\ n >= 2
    /\ pos = n
    /\ input[pos] = LB
    /\ filled > pos
    /\ prev = NoPrev

\* C16: on a non-empty window of whitespace only, skip returns KeepSkipping
\* with the window's length and leaves its state as it was; main consumes
\* those bytes and goes back to fill_buf, at least one byte further.
C16_WhitespaceWindow ==
    [][/\ (pc = "skip" /\ Len(buf) > 0 /\ \A j \in 1..Len(buf) : buf[j] \in SkipWs)
            => /\ st' = KeepSkipping
               /\ n' = Len(buf)
               /\ at_beginning' = at_beginning
               /\ pc' = "consume"
               /\ status' = status
       /\ (pc = "consume" /\ st = KeepSkipping /\ n > 0)
            => /\ pos' = pos + n
               /\ pos' > pos
               /\ pos' = filled
               /\ pc' = "fill"]_vars

\* main is back at fill_buf after a window of two whitespace bytes in a gap.
C16_Witness ==
    /\ pc = "fill"
    /\ st = KeepSkipping
    /\ n >= 1
    /\ pos = filled
    /\ ~at_beginning
    /\ out # <<>>
    /\ eofScans = 0
    /\ prev = NoPrev

\* C17: two runs of one input that differ only in how the input arrived in
\* the window end the same way and with the same output; so skip went through
\* the same states (one ExpectValue per line written, one more when the
\* parser failed, End when the run finished).
C17_ChunkingIndependent ==
    (prev # NoPrev /\ prev.input = input /\ Over)
        => (Outcome = prev.outcome /\ out = prev.out)

\* Two finished runs of one array of two elements, the source read further
\* ahead in one than in the other.
C17_Witness ==
    /\ pc = "done"
    /\ prev.outcome = "ok"
    /\ prev.input = input
    /\ prev.filled # filled
    /\ shape # NoShape
    /\ Len(shape.elems) = 2
    /\ out = Lines(shape.elems)

\* The offset of the last byte of element i (1 or 2) of the array Render(sh).
ValueEnd(sh, i) ==
    IF i = 1 THEN 1 + Len(sh.gaps[1]) + Len(sh.elems[1])
    ELSE 1 + Len(sh.gaps[1]) + Len(sh.elems[1]) + Len(sh.gaps[2]) + 1
         + Len(sh.gaps[3]) + Len(sh.elems[2])

\* C18: the line of element i is written before any byte after element i is
\* taken from the source: while the read offset is beyond the last byte of
\* element i, the output starts with the lines of elements 1 .. i.
C18_EmissionSynchronous ==
    shape # NoShape
        => \A i \in 1..Len(shape.elems) :
              pos > ValueEnd(shape, i)
                  => LET ls == Lines(SubSeq(shape.elems, 1, i))
                     IN /\ Len(out) >= Len(ls)
                        /\ SubSeq(out, 1, Len(ls)) = ls

\* C19: the counter is the read offset of the source in every state; it
\* never decreases, never exceeds the length of the input, and is never below
\* the value saved in old_count.
C19_CounterIsOffset ==
    /\ [](/\ count = pos
          /\ count <= Len(input)
          /\ old_count <= count)
    /\ [][count' >= count]_vars

\* After the second element the counter has moved on from a non-zero
\* old_count, by consume and by the parser's reads.
C19_Witness ==
    /\ pc = "progress"
    /\ old_count > 0
    /\ count > old_count + 1
    /\ prev = NoPrev

====
